---- MODULE Spec2Model ----
(***************************************************************************)
(* Vest-price resolution and transaction consolidation of the E*Trade CGT  *)
(* tooling: VestPriceCalculator (calculate_vest_price.py), OptionsProcessor *)
(* (options_adder.py) and ETradeDataProcessor (etrade_data_processor.py).  *)
(*                                                                         *)
(* Representation                                                          *)
(*   datetime          proleptic Gregorian ordinal (date.toordinal())      *)
(*   'YYYY-MM-DD' str  the integer YYYYMMDD (lexical order = numeric order)*)
(*   float             exact rational <<n, d>>, d > 0, in lowest terms     *)
(*   None / NaN        <<>> for numbers, NaT (0) for dates                 *)
(*   grant string      sequence of grant tokens ("A1-A2" is <<1, 2>>)      *)
(***************************************************************************)
EXTENDS Integers, Sequences, FiniteSets, TLC

VARIABLES
    calc_state,        \* VestPriceCalculator: "new", "constructed" or "raised"
    holidays,          \* VestPriceCalculator.holidays: set of date strings
    stock_prices,      \* VestPriceCalculator.stock_prices: dict date string -> price
    forex_rates,       \* VestPriceCalculator.forex_rates: dict date string -> rate
    call,              \* the last direct call of a calculator method: op, arg
                       \* (the date, as a string) and ret
    opt_pc,            \* OptionsProcessor.get_user_input: "input" or "returned"
    records,           \* OptionsProcessor.records
    current_grant,     \* OptionsProcessor.get_user_input: current_grant
    sales_df,          \* processed gains/losses table
    vests_df,          \* processed benefits table ('Shares released' rows)
    pc,                \* position of ETradeDataProcessor.main
    buy_records,       \* consolidate_transactions: buy_records
    sell_records,      \* consolidate_transactions: sell_records
    ledger,            \* the DataFrame consolidate_transactions returns
    validation_stats,  \* ETradeDataProcessor.validation_stats
    df,                \* argument of a direct consolidate_similar_prices call
    result_rows        \* its result

vars == <<calc_state, holidays, stock_prices, forex_rates, call,
          opt_pc, records, current_grant,
          sales_df, vests_df, pc, buy_records, sell_records, ledger,
          validation_stats, df, result_rows>>

calcVars == <<calc_state, holidays, stock_prices, forex_rates>>
optVars  == <<opt_pc, records, current_grant>>
procVars == <<sales_df, vests_df, pc, buy_records, sell_records, ledger,
              validation_stats>>
consVars == <<df, result_rows>>

----------------------------------------------------------------------------
(* Bounds of the model *)

NumDays     == 5    \* input dates are 2024-01-12 (a Friday) and the days after it
Horizon     == 10   \* how far past a date the reference scan for a business day looks
MaxRecords  == 1    \* option exercises entered in one get_user_input session
MaxVests    == 2    \* rows of the benefits table
MaxSales    == 2    \* rows of the gains/losses table
MaxRows     == 3    \* rows handed to a direct consolidate_similar_prices call

----------------------------------------------------------------------------
(* Absent values *)

None == <<>>
NaT  == 0

----------------------------------------------------------------------------
(* float arithmetic, modelled exactly *)

Abs(n) == IF n < 0 THEN 0 - n ELSE n

RECURSIVE GCD(_, _)
GCD(a, b) == IF b = 0 THEN a ELSE GCD(b, a % b)

Rat(n, d) ==
    LET s == IF d < 0 THEN 0 - 1 ELSE 1
        g == GCD(Abs(n), Abs(d))
    IN  <<(s * n) \div g, (s * d) \div g>>

\* products and sums are formed on cross-reduced terms, comparisons by
\* continued fractions, so that intermediate integers stay small
RatMul(a, b) ==
    LET Cross(g1, g2) ==
            Rat((a[1] \div g1) * (b[1] \div g2), (a[2] \div g2) * (b[2] \div g1))
    IN  Cross(GCD(Abs(a[1]), b[2]), GCD(Abs(b[1]), a[2]))

RatDiv(a, b) ==
    LET Cross(g1, g2) ==
            Rat((a[1] \div g1) * (b[2] \div g2), (a[2] \div g2) * (b[1] \div g1))
    IN  Cross(GCD(Abs(a[1]), Abs(b[1])), GCD(b[2], a[2]))

RatAdd(a, b) ==
    LET Over(g) ==
            Rat(a[1] * (b[2] \div g) + b[1] * (a[2] \div g), (a[2] \div g) * b[2])
    IN  Over(GCD(a[2], b[2]))

RECURSIVE RatLe(_, _)
RatLe(a, b) ==
    LET Parts(qa, qb, ra, rb) ==
            IF qa # qb THEN qa < qb
            ELSE IF ra = 0 THEN TRUE
            ELSE IF rb = 0 THEN FALSE
            ELSE RatLe(<<b[2], rb>>, <<a[2], ra>>)
    IN  Parts(a[1] \div a[2], b[1] \div b[2], a[1] % a[2], b[1] % b[2])

Cents(c)     == Rat(c, 100)

----------------------------------------------------------------------------
(* datetime: strptime / strftime with '%Y-%m-%d', weekday, timedelta *)

DateMax == 3652059   \* datetime.max.toordinal(), 9999-12-31
OverflowError == 0 - 1

IsLeap(y) == y % 4 = 0 /\ (y % 100 # 0 \/ y % 400 = 0)

DaysBeforeMonthTable == <<0, 31, 59, 90, 120, 151, 181, 212, 243, 273, 304, 334>>
DaysInMonthTable     == <<31, 28, 31, 30, 31, 30, 31, 31, 30, 31, 30, 31>>

DaysBeforeYear(y) ==
    LET p == y - 1 IN p * 365 + p \div 4 - p \div 100 + p \div 400

DaysBeforeMonth(y, m) ==
    DaysBeforeMonthTable[m] + (IF m > 2 /\ IsLeap(y) THEN 1 ELSE 0)

\* datetime.strptime(s, '%Y-%m-%d') for a well-formed date string
Strptime(s) ==
    LET y == s \div 10000
        m == (s \div 100) % 100
        d == s % 100
    IN  DaysBeforeYear(y) + DaysBeforeMonth(y, m) + d

\* datetime.strftime('%Y-%m-%d')
Strftime(ord) ==
    LET MonthDay(year, leap, n) ==
            LET Place(m0, prec0) ==
                    IF prec0 > n
                    THEN year * 10000 + (m0 - 1) * 100
                             + (n - (prec0 - (DaysInMonthTable[m0 - 1]
                                   + (IF m0 - 1 = 2 /\ leap THEN 1 ELSE 0))) + 1)
                    ELSE year * 10000 + m0 * 100 + (n - prec0 + 1)
                Estimate(m0) ==
                    Place(m0, DaysBeforeMonthTable[m0]
                                  + (IF m0 > 2 /\ leap THEN 1 ELSE 0))
            IN  Estimate((n + 50) \div 32)
        Years(n400, n100, n4, n1, n) ==
            IF n1 = 4 \/ n100 = 4
            THEN (n400 * 400 + n100 * 100 + n4 * 4 + n1) * 10000 + 1231
            ELSE MonthDay(n400 * 400 + 1 + n100 * 100 + n4 * 4 + n1,
                          n1 = 3 /\ (n4 # 24 \/ n100 = 3), n)
        Cycle4(n400, n100, n4, r4) == Years(n400, n100, n4, r4 \div 365, r4 % 365)
        Cycle100(n400, n100, r100) ==
            Cycle4(n400, n100, r100 \div 1461, r100 % 1461)
        Cycle400(n400, r400) == Cycle100(n400, r400 \div 36524, r400 % 36524)
    IN  Cycle400((ord - 1) \div 146097, (ord - 1) % 146097)

\* datetime.weekday(): Monday is 0, Saturday 5, Sunday 6
Weekday(ord) == (ord + 6) % 7

----------------------------------------------------------------------------
(* VestPriceCalculator *)

DictGet(dict, key) == IF key \in DOMAIN dict THEN dict[key] ELSE None

IsBusinessDay_SaturdayWorks(date) ==
    IF Weekday(date) > 5
    THEN FALSE
    ELSE Strftime(date) \notin holidays

IsBusinessDay(date) ==
    IF Weekday(date) >= 5
    THEN FALSE
    ELSE Strftime(date) \notin holidays

RECURSIVE GetNextBusinessDay_StepsPast(_)
GetNextBusinessDay_StepsPast(date) ==
    IF date >= DateMax THEN OverflowError
    ELSE IF IsBusinessDay(date + 1) THEN date + 1
    ELSE GetNextBusinessDay_StepsPast(date + 1)

\* the while loop; next_day += timedelta(days=1) raises OverflowError at datetime.max
RECURSIVE GetNextBusinessDay(_)
GetNextBusinessDay(date) ==
    IF IsBusinessDay(date) THEN date
    ELSE IF date >= DateMax THEN OverflowError
    ELSE GetNextBusinessDay(date + 1)

GetVestPrice_RateWithoutPrice(vest_date) ==
    LET Quote(usd_price, gbp_usd_rate, actual_date_str) ==
            IF usd_price = None
            THEN <<None, gbp_usd_rate, None, actual_date_str>>
            ELSE IF gbp_usd_rate = None
            THEN <<usd_price, None, None, actual_date_str>>
            ELSE <<usd_price, gbp_usd_rate, RatDiv(usd_price, gbp_usd_rate),
                   actual_date_str>>
        Lookup(actual_date_str) ==
            Quote(DictGet(stock_prices, actual_date_str),
                  DictGet(forex_rates, actual_date_str), actual_date_str)
        Try(actual_date) ==
            IF actual_date = OverflowError
            THEN <<None, None, None, vest_date>>             \* except Exception
            ELSE Lookup(Strftime(actual_date))
    IN  Try(GetNextBusinessDay(Strptime(vest_date)))

\* returns (USD price, GBP/USD rate, GBP price, actual_date)
GetVestPrice(vest_date) ==
    LET Quote(usd_price, gbp_usd_rate, actual_date_str) ==
            IF usd_price = None
            THEN <<None, None, None, actual_date_str>>
            ELSE IF gbp_usd_rate = None
            THEN <<usd_price, None, None, actual_date_str>>
            ELSE <<usd_price, gbp_usd_rate, RatDiv(usd_price, gbp_usd_rate),
                   actual_date_str>>
        Lookup(actual_date_str) ==
            Quote(DictGet(stock_prices, actual_date_str),
                  DictGet(forex_rates, actual_date_str), actual_date_str)
        Try(actual_date) ==
            IF actual_date = OverflowError
            THEN <<None, None, None, vest_date>>             \* except Exception
            ELSE Lookup(Strftime(actual_date))
    IN  Try(GetNextBusinessDay(Strptime(vest_date)))

----------------------------------------------------------------------------
(* The data files *)

\* the date strings used as inputs: 2024-01-12 and the following days
Dates == {20240111 + i : i \in 1..NumDays}

HolidayCandidates == {20240101, 20240113, 20240115, 20240116}

\* the last two days datetime can hold: a Thursday and a Friday
LastDays == {99991230, 99991231}

\* an entry of us_holidays.json
HolidayEntry(d, kind) ==
    [date   |-> d,
     global |-> kind = "national",
     types  |-> IF kind = "optional" THEN {"Optional"} ELSE {"Public"}]

HolidayFiles(cands) ==
    {{HolidayEntry(d, kinds[d]) : d \in {c \in cands : kinds[c] # "absent"}} :
        kinds \in [cands -> {"absent", "national", "regional", "optional"}]}

\* rows of the stock price CSV and the forex CSV: a close price and a rate per date
ClosePrice(d) == Cents(9000 + 50 * (d % 100))
Average(d)    == Rat(120 + (d % 100), 100)

TradingDates == {d \in Dates : Weekday(Strptime(d)) < 5}

StockFiles(dates) == {[d \in present |-> ClosePrice(d)] : present \in SUBSET dates}
ForexFiles(dates) == {[d \in present |-> Average(d)] : present \in SUBSET dates}

----------------------------------------------------------------------------
(* VestPriceCalculator.__init__ *)

LoadHolidays(holiday_data) ==
    {holiday.date : holiday \in
        {h \in holiday_data : h.global \/ "Optional" \notin h.types}}

\* _load_stock_prices and _load_forex_rates log min(keys): ValueError on an empty file
Construct(stock_file, forex_file, holidays_file) ==
    /\ calc_state = "new"
    /\ IF DOMAIN stock_file = {} \/ DOMAIN forex_file = {}
       THEN /\ calc_state' = "raised"
            /\ UNCHANGED <<holidays, stock_prices, forex_rates>>
       ELSE /\ calc_state' = "constructed"
            /\ stock_prices' = stock_file
            /\ forex_rates' = forex_file
            /\ holidays' = LoadHolidays(holidays_file)

----------------------------------------------------------------------------
(* Initial state: nothing constructed, nothing processed *)

NoCall == [op |-> "none", arg |-> NaT, ret |-> NaT]

ZeroStats ==
    [unmatched_vests |-> 0, missing_fmv |-> 0, negative_quantities |-> 0,
     zero_prices |-> 0, calculated_prices |-> 0]

Init ==
    /\ calc_state = "new"
    /\ holidays = {}
    /\ stock_prices = <<>>
    /\ forex_rates = <<>>
    /\ call = NoCall
    /\ opt_pc = "input"
    /\ records = <<>>
    /\ current_grant = None
    /\ sales_df = <<>>
    /\ vests_df = <<>>
    /\ pc = "new"
    /\ buy_records = <<>>
    /\ sell_records = <<>>
    /\ ledger = <<>>
    /\ validation_stats = ZeroStats
    /\ df = <<>>
    /\ result_rows = <<>>

----------------------------------------------------------------------------
(* Direct use of the calculator, and the option exercise session *)

NewCalculator ==
    /\ calc_state = "new"
    /\ \E stock_file \in StockFiles(TradingDates),
          forex_file \in ForexFiles(TradingDates),
          holidays_file \in HolidayFiles(HolidayCandidates)
                                \cup HolidayFiles(LastDays) :
            Construct(stock_file, forex_file, holidays_file)
    /\ UNCHANGED <<call, optVars, procVars, consVars>>

Idle == calc_state = "constructed" /\ call = NoCall /\ records = <<>>
            /\ opt_pc = "input"

CallIsBusinessDay ==
    /\ Idle
    /\ \E d \in Dates :
          call' = [op |-> "_is_business_day", arg |-> d,
                   ret |-> IsBusinessDay(Strptime(d))]
    /\ UNCHANGED <<calcVars, optVars, procVars, consVars>>

CallGetNextBusinessDay ==
    /\ Idle
    /\ \E d \in Dates \cup LastDays :
          call' = [op |-> "_get_next_business_day", arg |-> d,
                   ret |-> GetNextBusinessDay(Strptime(d))]
    /\ UNCHANGED <<calcVars, optVars, procVars, consVars>>

CallGetVestPrice ==
    /\ Idle
    /\ \E vest_date \in Dates :
          call' = [op |-> "get_vest_price", arg |-> vest_date,
                   ret |-> GetVestPrice(vest_date)]
    /\ UNCHANGED <<calcVars, optVars, procVars, consVars>>

\* the record get_user_input builds (options_adder.py lines 63-73)
ExerciseRecord(grant, date, price, quantity, fx_rate) ==
    [RecordType |-> "Buy",
     Date       |-> date,
     Qty        |-> quantity,
     Price      |-> price,
     PriceGBP   |-> IF fx_rate # Rat(0, 1) THEN RatDiv(price, fx_rate) ELSE None,
     Rate       |-> fx_rate,
     OrderType  |-> "Exercise",
     Type       |-> "Non-Qualified Stock Option",
     Grant      |-> grant]

ExerciseGrants == {<<7>>}
ExercisePrices == {Cents(500)}
ExerciseQtys   == {10}

\* one pass of the outer loop of get_user_input, with the answers typed in
GetUserInput ==
    /\ calc_state = "constructed" /\ call = NoCall
    /\ opt_pc = "input"
    /\ Len(records) < MaxRecords
    /\ \E typed_grant \in ExerciseGrants, date \in Dates,
          price \in ExercisePrices, quantity \in ExerciseQtys,
          continue_anyway \in BOOLEAN, again \in {"same", "different", "stop"} :
          LET grant   == IF current_grant = None THEN typed_grant
                         ELSE current_grant
              fx_rate == GetVestPrice(date)[2]
          IN  IF fx_rate = None /\ ~continue_anyway
              THEN \* "Continue anyway?" answered no: continue
                   /\ current_grant' = grant
                   /\ UNCHANGED <<records, opt_pc>>
              ELSE /\ records' = Append(records,
                          ExerciseRecord(grant, date, price, quantity,
                              IF fx_rate = None THEN Rat(0, 1) ELSE fx_rate))
                   /\ current_grant' = IF again = "different" THEN None ELSE grant
                   /\ opt_pc' = IF again = "stop" THEN "returned" ELSE "input"
    /\ UNCHANGED <<calcVars, call, procVars, consVars>>

NextPrice ==
    \/ NewCalculator
    \/ CallIsBusinessDay
    \/ CallGetNextBusinessDay
    \/ CallGetVestPrice
    \/ GetUserInput

SpecPrice == Init /\ [][NextPrice]_vars

----------------------------------------------------------------------------
(* ETradeDataProcessor.consolidate_similar_prices *)

\* A row of the transaction table:
\*   RecordType 'Record Type', Date 'Date' (a datetime, or NaT), Qty 'Qty.',
\*   Price 'Price Per Share', PriceGBP 'Price Per Share GBP',
\*   Rate 'Exchange Rate', OrderType 'Order Type', Type 'Type',
\*   Grant 'Grant Number'

price_tolerance == Rat(1, 100)

\* the strings of the key columns, in the order Python compares them
LexOrder == <<"Buy", "Limit", "Market", "RS", "Restricted Stock Unit", "Sell",
              "Vest">>

StrRank(str) == CHOOSE i \in 1..Len(LexOrder) : LexOrder[i] = str

GroupKey(row) == <<row.Date, row.RecordType, row.OrderType, row.Type>>

KeyLess(k1, k2) ==
    \/ k1[1] < k2[1]
    \/ k1[1] = k2[1] /\ StrRank(k1[2]) < StrRank(k2[2])
    \/ k1[1] = k2[1] /\ k1[2] = k2[2] /\ StrRank(k1[3]) < StrRank(k2[3])
    \/ k1[1] = k2[1] /\ k1[2] = k2[2] /\ k1[3] = k2[3]
           /\ StrRank(k1[4]) < StrRank(k2[4])

\* groupby sorts the group keys
RECURSIVE SortedKeys(_)
SortedKeys(keys) ==
    IF keys = {} THEN <<>>
    ELSE LET first == CHOOSE k \in keys : \A o \in keys \ {k} : KeyLess(k, o)
         IN  <<first>> \o SortedKeys(keys \ {first})

\* groupby(dropna=True) leaves out the rows with a missing key
HasKey(row) == row.Date # NaT

RECURSIVE SumQty(_)
SumQty(rows) == IF rows = <<>> THEN 0 ELSE Head(rows).Qty + SumQty(Tail(rows))

\* (group[col] * group['Qty.']).sum() for col = 1 (USD) or 2 (GBP)
RECURSIVE SumPriceQty(_)
SumPriceQty(rows) ==
    IF rows = <<>> THEN Rat(0, 1)
    ELSE RatAdd(RatMul(Head(rows).Price, Rat(Head(rows).Qty, 1)),
                SumPriceQty(Tail(rows)))

RECURSIVE SumPrice(_)
SumPrice(rows) ==
    IF rows = <<>> THEN Rat(0, 1) ELSE RatAdd(Head(rows).Price, SumPrice(Tail(rows)))

CalculateWeightedAverage_Unweighted(group) ==
    IF SumQty(group) = 0
    THEN Rat(0, 1)
    ELSE RatDiv(SumPrice(group), Rat(Len(group), 1))

CalculateWeightedAverage(group) ==
    IF SumQty(group) = 0
    THEN Rat(0, 1)
    ELSE RatDiv(SumPriceQty(group), Rat(SumQty(group), 1))

\* round(x, 6), ties to even, by long division
RECURSIVE Digits(_, _, _, _)
Digits(acc, rem, den, k) ==
    IF k = 0 THEN <<acc, rem>>
    ELSE Digits(acc * 10 + (rem * 10) \div den, (rem * 10) % den, den, k - 1)

Round6(x) ==
    IF x = None THEN None
    ELSE LET whole  == x[1] \div x[2]
             dr     == Digits(whole, x[1] % x[2], x[2], 6)
             scaled == IF 2 * dr[2] > x[2] THEN dr[1] + 1
                       ELSE IF 2 * dr[2] < x[2] THEN dr[1]
                       ELSE IF dr[1] % 2 = 0 THEN dr[1] ELSE dr[1] + 1
         IN  Rat(scaled, 1000000)

SeqToSet(seq) == {seq[i] : i \in 1..Len(seq)}

\* a table built row by row, as a sequence
Table(rows) == rows \o <<>>

RECURSIVE SortedSeq(_)
SortedSeq(set) ==
    IF set = {} THEN <<>>
    ELSE LET least == CHOOSE x \in set : \A y \in set : x <= y
         IN  <<least>> \o SortedSeq(set \ {least})

\* '-'.join(sorted(set(tokens of all grant strings)))
CombinedGrants(rows) ==
    SortedSeq(UNION {SeqToSet(rows[i].Grant) : i \in 1..Len(rows)})

\* Series.mode().iloc[0]: the most frequent value, the smallest such on a tie
ModeRate(rows) ==
    LET rates    == {rows[i].Rate : i \in {j \in 1..Len(rows) : rows[j].Rate # None}}
        Count(r) == Cardinality({i \in 1..Len(rows) : rows[i].Rate = r})
        modes    == {r \in rates : \A o \in rates : Count(o) <= Count(r)}
    IN  CHOOSE r \in modes : \A o \in modes : RatLe(r, o)

Similar_Exclusive(price, ref_price, tol) ==
    /\ price # None
    /\ ref_price # None
    /\ ~RatLe(price, RatMul(ref_price, RatAdd(Rat(1, 1), Rat(0 - tol[1], tol[2]))))
    /\ ~RatLe(RatMul(ref_price, RatAdd(Rat(1, 1), tol)), price)

Similar(price, ref_price, tol) ==
    /\ price # None
    /\ ref_price # None
    /\ RatLe(RatMul(ref_price, RatAdd(Rat(1, 1), Rat(0 - tol[1], tol[2]))), price)
    /\ RatLe(price, RatMul(ref_price, RatAdd(Rat(1, 1), tol)))

\* the consolidated record (lines 225-261)
MergedRecord(key, similar_prices) ==
    LET with_gbp == SelectSeq(similar_prices, LAMBDA r : r.PriceGBP # None)
        as_price == Table([i \in 1..Len(with_gbp) |->
                        [with_gbp[i] EXCEPT !.Price = with_gbp[i].PriceGBP]])
    IN  [Date       |-> key[1],
         RecordType |-> key[2],
         OrderType  |-> key[3],
         Type       |-> key[4],
         Qty        |-> SumQty(similar_prices),
         Price      |-> Round6(CalculateWeightedAverage(similar_prices)),
         PriceGBP   |-> IF with_gbp # <<>>
                        THEN Round6(CalculateWeightedAverage(as_price))
                        ELSE None,
         Rate       |-> IF with_gbp # <<>> THEN ModeRate(similar_prices)
                        ELSE None,
         Grant      |-> CombinedGrants(similar_prices)]

RECURSIVE ConsolidateGroup_DropsPivotOnly(_, _, _)
ConsolidateGroup_DropsPivotOnly(key, group, tol) ==
    IF group = <<>> THEN <<>>
    ELSE LET ref_price      == group[1].Price
             similar_prices == SelectSeq(group,
                                   LAMBDA r : Similar(r.Price, ref_price, tol))
         IN  IF Len(similar_prices) > 1
             THEN <<MergedRecord(key, similar_prices)>>
                      \o ConsolidateGroup_DropsPivotOnly(key, Tail(group), tol)
             ELSE <<group[1]>>
                      \o ConsolidateGroup_DropsPivotOnly(key, Tail(group), tol)

RECURSIVE ConsolidateGroup_SkipsNext(_, _, _)
ConsolidateGroup_SkipsNext(key, group, tol) ==
    IF group = <<>> THEN <<>>
    ELSE LET ref_price      == group[1].Price
             similar_prices == SelectSeq(group,
                                   LAMBDA r : Similar(r.Price, ref_price, tol))
             rest           == SelectSeq(group,
                                   LAMBDA r : ~Similar(r.Price, ref_price, tol))
         IN  IF Len(similar_prices) > 1
             THEN <<MergedRecord(key, similar_prices)>>
                      \o ConsolidateGroup_SkipsNext(key, rest, tol)
             ELSE <<group[1]>>
                      \o ConsolidateGroup_SkipsNext(key,
                             SubSeq(group, 3, Len(group)), tol)

\* the while loop over one group of sells (lines 212-266)
RECURSIVE ConsolidateGroup(_, _, _)
ConsolidateGroup(key, group, tol) ==
    IF group = <<>> THEN <<>>
    ELSE LET ref_price      == group[1].Price
             idx            == {i \in 1..Len(group) :
                                   Similar(group[i].Price, ref_price, tol)}
             Pick(keep)     == LET F[i \in 0..Len(group)] ==
                                       IF i = 0 THEN <<>>
                                       ELSE IF (i \in idx) = keep
                                            THEN Append(F[i - 1], group[i])
                                            ELSE F[i - 1]
                               IN  F[Len(group)]
             similar_prices == Pick(TRUE)
         IN  IF Len(similar_prices) > 1
             THEN <<MergedRecord(key, similar_prices)>>
                      \o ConsolidateGroup(key, Pick(FALSE), tol)
             ELSE <<group[1]>> \o ConsolidateGroup(key, Tail(group), tol)

RowsOfKey(rows, key) == SelectSeq(rows, LAMBDA r : HasKey(r) /\ GroupKey(r) = key)

RECURSIVE ConsolidateKeys(_, _, _)
ConsolidateKeys(rows, keys, tol) ==
    IF keys = <<>> THEN <<>>
    ELSE LET key   == Head(keys)
             group == RowsOfKey(rows, key)
         IN  (IF key[2] = "Buy" THEN group
              ELSE ConsolidateGroup(key, group, tol))
                 \o ConsolidateKeys(rows, Tail(keys), tol)

ConsolidateSimilarPrices(rows, tol) ==
    ConsolidateKeys(rows,
        SortedKeys({GroupKey(rows[i]) : i \in {j \in 1..Len(rows) : HasKey(rows[j])}}),
        tol)

----------------------------------------------------------------------------
(* Direct calls of consolidate_similar_prices *)

SeqsUpTo(set, n) == UNION {[1..k -> set] : k \in 1..n}

SellPrices == {Cents(1000), Cents(1005), Cents(1010), Cents(1100)}
SellQtys   == {100, 50}
SellDates  == {20240112, 20240116}

SellRow(date, price, qty) ==
    [RecordType |-> "Sell",
     Date       |-> Strptime(date),
     Qty        |-> qty,
     Price      |-> price,
     PriceGBP   |-> RatDiv(price, Average(date)),
     Rate       |-> Average(date),
     OrderType  |-> "Market",
     Type       |-> "RS",
     Grant      |-> IF qty = 100 THEN <<1, 2>> ELSE <<2, 3>>]

SellRows == {SellRow(d, p, q) : d \in SellDates, p \in SellPrices, q \in SellQtys}

\* sells of one day whose quantities can cancel and whose exchange rates differ
\* or are missing (a row without a rate has no GBP price either)
OddPrices == {Cents(1000), Cents(1005), Cents(1015)}
OddLots   == {<<50, Rat(127, 100)>>, <<100, Rat(125, 100)>>,
              <<0 - 50, Rat(125, 100)>>, <<0, None>>}

OddSellRow(price, lot) ==
    [RecordType |-> "Sell",
     Date       |-> Strptime(20240112),
     Qty        |-> lot[1],
     Price      |-> price,
     PriceGBP   |-> IF lot[2] = None THEN None ELSE RatDiv(price, lot[2]),
     Rate       |-> lot[2],
     OrderType  |-> "Market",
     Type       |-> "RS",
     Grant      |-> <<4>>]

OddSellRows == {OddSellRow(p, l) : p \in OddPrices, l \in OddLots}

CallConsolidateSimilarPrices ==
    /\ df = <<>>
    /\ \E rows \in SeqsUpTo(SellRows, MaxRows) \cup SeqsUpTo(OddSellRows, MaxRows) :
          /\ df' = rows
          /\ result_rows' = ConsolidateSimilarPrices(rows, price_tolerance)
    /\ UNCHANGED <<calcVars, call, optVars, procVars>>

\* consolidate_similar_prices called again, on the table it returned; the
\* second call is made on tables whose records lie outside each other's bands
CallOnOwnOutput ==
    /\ df # <<>>
    /\ \A i, j \in 1..Len(result_rows) :
          (i # j /\ GroupKey(result_rows[i]) = GroupKey(result_rows[j]))
              => /\ ~Similar(result_rows[j].Price, result_rows[i].Price,
                             price_tolerance)
    /\ df' = result_rows
    /\ result_rows' = ConsolidateSimilarPrices(result_rows, price_tolerance)
    /\ UNCHANGED <<calcVars, call, optVars, procVars>>

NextConsolidate ==
    \/ CallConsolidateSimilarPrices
    \/ CallOnOwnOutput

SpecConsolidate == Init /\ [][NextConsolidate]_vars

----------------------------------------------------------------------------
(* ETradeDataProcessor: the input files *)

\* A row of the gains/losses sheet: Grant 'Grant Number', VestDate 'Vest Date',
\* VestFMV 'Vest Date FMV', DateSold 'Date Sold', Qty 'Qty.',
\* Proceeds 'Proceeds Per Share', OrderType 'Order Type', Type 'Type'.
\* A sale here is a sale on the day of the vest it belongs to.
KnownFMVs == {Cents(5000)}

GainsRow(date, fmv) ==
    [Grant     |-> <<1>>,
     VestDate  |-> date,
     VestFMV   |-> fmv,
     DateSold  |-> date,
     Qty       |-> 100,
     Proceeds  |-> Cents(1000),
     OrderType |-> "Market",
     Type      |-> "RS"]

EventDates == {20240112, 20240113}

GainsRows == {GainsRow(d, f) : d \in EventDates, f \in KnownFMVs \cup {None}}

\* sales of 2024-01-12 that differ from the others in one column: a limit
\* order, a negative quantity, proceeds of zero
OddGainsRows ==
    {[GainsRow(20240112, None) EXCEPT !.OrderType = "Limit"],
     [GainsRow(20240112, None) EXCEPT !.Qty = 0 - 100],
     [GainsRow(20240112, None) EXCEPT !.Proceeds = Rat(0, 1)]}

\* A row of the benefits sheet: 'Grant Number', 'Date', 'Event Type',
\* 'Qty. or Amount'
BenefitRow(grant, date, event) ==
    [Grant |-> <<grant>>, Date |-> date, EventType |-> event, Qty |-> 10 * grant]

BenefitRows ==
    {BenefitRow(g, d, "Shares released") : g \in {1, 2}, d \in EventDates}
        \cup {BenefitRow(1, 20240112, "Shares granted")}

FilesUpTo(rows, n) == UNION {[1..k -> rows] : k \in 0..n}

\* the data files of a run: prices and rates for 2024-01-16 are there unless
\* the file has no rows at all
RunStockFiles ==
    {[d \in present \cup {20240116} |-> ClosePrice(d)] :
        present \in SUBSET {20240112, 20240115}}
            \cup {[d \in {} |-> ClosePrice(d)]}

RunForexFiles ==
    {[d \in present \cup {20240116} |-> Average(d)] :
        present \in SUBSET {20240112, 20240115}}
            \cup {[d \in {} |-> Average(d)]}

RunHolidayFiles ==
    {{}, {HolidayEntry(20240101, "national"), HolidayEntry(20240115, "national")}}

----------------------------------------------------------------------------
(* ETradeDataProcessor.main, step by step *)

\* ETradeDataProcessor.__init__
NewProcessor ==
    /\ calc_state = "new"
    /\ \E stock_file \in RunStockFiles, forex_file \in RunForexFiles,
          holidays_file \in RunHolidayFiles :
            Construct(stock_file, forex_file, holidays_file)
    /\ UNCHANGED <<call, optVars, procVars, consVars>>

\* process_gains_losses; _validate_numeric_values counts the negative
\* quantities and then fails to print them: the gains table has no 'Date'
\* column (KeyError); it has no 'Price Per Share' column either, so the price
\* check is skipped
ProcessGainsLosses ==
    /\ calc_state = "constructed" /\ pc = "new"
    /\ \E file \in FilesUpTo(GainsRows \cup OddGainsRows, MaxSales) :
          LET neg_qty == SelectSeq(file, LAMBDA r : r.Qty < 0)
          IN  IF neg_qty # <<>>
              THEN /\ validation_stats' =
                          [validation_stats EXCEPT !.negative_quantities =
                              @ + Len(neg_qty)]
                   /\ pc' = "gains_raised"
                   /\ UNCHANGED sales_df
              ELSE /\ sales_df' = file
                   /\ pc' = "gains_done"
                   /\ UNCHANGED validation_stats
    /\ UNCHANGED <<calcVars, call, optVars, vests_df, buy_records, sell_records,
                   ledger, consVars>>

\* process_benefits keeps the 'Shares released' rows
ProcessBenefits ==
    /\ pc = "gains_done"
    /\ \E file \in FilesUpTo(BenefitRows, MaxVests) :
          vests_df' = SelectSeq(file, LAMBDA r : r.EventType = "Shares released")
    /\ pc' = "benefits_done"
    /\ UNCHANGED <<calcVars, call, optVars, sales_df, buy_records, sell_records,
                   ledger, validation_stats, consVars>>

----------------------------------------------------------------------------
(* ETradeDataProcessor.consolidate_transactions *)

\* sales_df[['Grant Number', 'Vest Date', 'Vest Date FMV']].drop_duplicates()
RECURSIVE DropDuplicates(_)
DropDuplicates(rows) ==
    IF rows = <<>> THEN <<>>
    ELSE LET front == DropDuplicates(SubSeq(rows, 1, Len(rows) - 1))
             last  == rows[Len(rows)]
         IN  IF last \in SeqToSet(front) THEN front ELSE Append(front, last)

FmvMapping(sales) ==
    DropDuplicates(Table([i \in 1..Len(sales) |->
        [Grant |-> sales[i].Grant, VestDate |-> sales[i].VestDate,
         VestFMV |-> sales[i].VestFMV]]))

\* pd.merge(vests_df, fmv_mapping, how='left'): one row per matching mapping
\* row, or one row without FMV when nothing matches
RECURSIVE MergeVests(_, _)
MergeVests(vests, mapping) ==
    IF vests = <<>> THEN <<>>
    ELSE LET v       == Head(vests)
             matches == SelectSeq(mapping,
                            LAMBDA m : m.Grant = v.Grant /\ m.VestDate = v.Date)
             Row(fmv) == [Grant |-> v.Grant, Date |-> v.Date, Qty |-> v.Qty,
                          FMV |-> fmv, GBP_Price |-> None, USD_GBP_Rate |-> None,
                          Actual_Vest_Date |-> NaT, assigned |-> FALSE]
         IN  (IF matches = <<>> THEN <<Row(None)>>
              ELSE Table([i \in 1..Len(matches) |-> Row(matches[i].VestFMV)]))
                 \o MergeVests(Tail(vests), mapping)

PriceVest_DateAlways(row) ==
    LET Write(vp) ==
            IF row.FMV = None
            THEN IF vp[1] # None
                 THEN [row EXCEPT !.FMV = vp[1], !.GBP_Price = vp[3],
                                  !.USD_GBP_Rate = vp[2],
                                  !.Actual_Vest_Date = vp[4], !.assigned = TRUE]
                 ELSE [row EXCEPT !.Actual_Vest_Date = vp[4], !.assigned = TRUE]
            ELSE IF vp[2] # None
                 THEN [row EXCEPT !.GBP_Price = RatDiv(row.FMV, vp[2]),
                                  !.USD_GBP_Rate = vp[2],
                                  !.Actual_Vest_Date = vp[4], !.assigned = TRUE]
                 ELSE [row EXCEPT !.Actual_Vest_Date = vp[4], !.assigned = TRUE]
    IN  Write(GetVestPrice(row.Date))

\* the body of the loop over vests_with_fmv (lines 304-326); assigned records
\* that the row was written to, which creates the three new columns
PriceVest(row) ==
    LET Write(vp) ==
            IF row.FMV = None
            THEN IF vp[1] # None
                 THEN [row EXCEPT !.FMV = vp[1], !.GBP_Price = vp[3],
                                  !.USD_GBP_Rate = vp[2],
                                  !.Actual_Vest_Date = vp[4], !.assigned = TRUE]
                 ELSE row
            ELSE IF vp[2] # None
                 THEN [row EXCEPT !.GBP_Price = RatDiv(row.FMV, vp[2]),
                                  !.USD_GBP_Rate = vp[2],
                                  !.Actual_Vest_Date = vp[4], !.assigned = TRUE]
                 ELSE row
    IN  Write(GetVestPrice(row.Date))

\* pd.to_datetime of a date string, NaT for a missing one
ToDatetime(date) == IF date = NaT THEN NaT ELSE Strptime(date)

BuyRecord(row) ==
    [RecordType |-> "Buy",
     Qty        |-> row.Qty,
     Date       |-> row.Actual_Vest_Date,
     Price      |-> row.FMV,
     PriceGBP   |-> row.GBP_Price,
     Rate       |-> row.USD_GBP_Rate,
     OrderType  |-> "Vest",
     Type       |-> "Restricted Stock Unit",
     Grant      |-> row.Grant]

SellRecord_ActualDate(sale) ==
    LET Convert(vp) ==
            [RecordType |-> "Sell",
             Qty        |-> sale.Qty,
             Date       |-> vp[4],
             Price      |-> sale.Proceeds,
             PriceGBP   |-> IF vp[2] # None THEN RatDiv(sale.Proceeds, vp[2])
                            ELSE None,
             Rate       |-> vp[2],
             OrderType  |-> sale.OrderType,
             Type       |-> sale.Type,
             Grant      |-> sale.Grant]
    IN  Convert(GetVestPrice(sale.DateSold))

\* a sell record with its GBP conversion (lines 358-377)
SellRecord(sale) ==
    LET Convert(vp) ==
            [RecordType |-> "Sell",
             Qty        |-> sale.Qty,
             Date       |-> sale.DateSold,
             Price      |-> sale.Proceeds,
             PriceGBP   |-> IF vp[2] # None THEN RatDiv(sale.Proceeds, vp[2])
                            ELSE None,
             Rate       |-> vp[2],
             OrderType  |-> sale.OrderType,
             Type       |-> sale.Type,
             Grant      |-> sale.Grant]
    IN  Convert(GetVestPrice(sale.DateSold))

\* sort_values('Date') uses an unstable sort: any order that is ascending by
\* date can come out
RECURSIVE SortValues(_, _)
SortValues(rows, idx) ==
    IF idx = {} THEN {<<>>}
    ELSE LET firsts == {i \in idx : \A j \in idx : rows[i].Date <= rows[j].Date}
         IN  UNION {{<<rows[i]>> \o rest : rest \in SortValues(rows, idx \ {i})} :
                        i \in firsts}

ConsolidateTransactions ==
    /\ pc = "benefits_done"
    /\ LET \* lines 380-403: the ledger, consolidated, sorted and formatted
           Output(buys, sells, consolidated, stats) ==
               /\ pc' = "done"
               /\ validation_stats' = stats
               /\ buy_records' = buys
               /\ sell_records' = sells
               /\ \E sorted \in SortValues(consolidated, 1..Len(consolidated)) :
                     ledger' = Table([i \in 1..Len(sorted) |->
                                   [sorted[i] EXCEPT !.Date = Strftime(@)]])
           Combine(buys, sells, concat, stats) ==
               Output(buys, sells,
                      ConsolidateSimilarPrices(
                          Table([i \in 1..Len(concat) |->
                              [concat[i] EXCEPT !.Date = ToDatetime(@)]]),
                          price_tolerance),
                      stats)
           Concat(buys, sells, stats) == Combine(buys, sells, buys \o sells, stats)
           \* lines 329-377
           Records(priced, stats1) ==
               IF \A i \in 1..Len(priced) : ~priced[i].assigned
               THEN \* vests_with_fmv['Actual_Vest_Date']: KeyError, no such column
                    /\ pc' = "raised"
                    /\ validation_stats' = stats1
                    /\ UNCHANGED <<buy_records, sell_records, ledger>>
               ELSE Concat(Table([i \in 1..Len(priced) |-> BuyRecord(priced[i])]),
                           Table([i \in 1..Len(sales_df) |->
                                      SellRecord(sales_df[i])]),
                           [stats1 EXCEPT !.unmatched_vests =
                               @ + Len(SelectSeq(priced, LAMBDA r : r.FMV = None))])
           \* the counters of the pricing loop
           Stats(vests_with_fmv, priced, calculated) ==
               Records(priced,
                       [validation_stats EXCEPT
                           !.calculated_prices = @ + calculated,
                           !.missing_fmv = @ + Len(SelectSeq(vests_with_fmv,
                                                   LAMBDA r : r.FMV = None))
                                             - calculated])
           Priced(vests_with_fmv, priced) ==
               Stats(vests_with_fmv, priced,
                     Cardinality({i \in 1..Len(priced) :
                         vests_with_fmv[i].FMV = None /\ priced[i].FMV # None}))
           \* lines 304-326
           Loop(vests_with_fmv) ==
               Priced(vests_with_fmv,
                      Table([i \in 1..Len(vests_with_fmv) |->
                                 PriceVest(vests_with_fmv[i])]))
       IN  Loop(MergeVests(vests_df, FmvMapping(sales_df)))
    /\ UNCHANGED <<calcVars, call, optVars, sales_df, vests_df, consVars>>

Next ==
    \/ NewProcessor
    \/ ProcessGainsLosses
    \/ ProcessBenefits
    \/ ConsolidateTransactions

Spec == Init /\ [][Next]_vars

----------------------------------------------------------------------------
(* Reference notions used by the properties *)

\* 2024-01-06 was a Saturday; valid for date strings of January 2024
SaturdayOrSunday(s) == (s - 20240106) % 7 \in {0, 1}

\* the first business day at or after the date string s, by definition
LeastBusinessDayFrom(s) ==
    LET d == Strptime(s)
    IN  Strftime(CHOOSE r \in d..(d + Horizon) :
            /\ IsBusinessDay(r)
            /\ \A x \in d..(r - 1) : ~IsBusinessDay(x))

----------------------------------------------------------------------------
(* Properties of VestPriceCalculator *)

\* C5: get_vest_price(nominalDate) always returns nextBusinessDay(nominalDate)
\* as the date; with no USD price for that date the other three values are
\* absent; with a price but no FX rate the price is returned and rate and
\* GBP price are absent; otherwise all are present and GBP price * rate =
\* USD price.
C5_ThreeTierFallback ==
    call.op = "get_vest_price" =>
        LET s == LeastBusinessDayFrom(call.arg)
            r == call.ret
        IN  /\ r[4] = s
            /\ IF s \notin DOMAIN stock_prices
               THEN r = <<None, None, None, s>>
               ELSE IF s \notin DOMAIN forex_rates
               THEN r = <<stock_prices[s], None, None, s>>
               ELSE /\ r[1] = stock_prices[s]
                    /\ r[2] = forex_rates[s]
                    /\ r[3] # None
                    /\ RatMul(r[3], r[2]) = r[1]

\* the scenario of the specification: no price for 2024-01-16 (a rate exists),
\* and 2024-01-13 resolves to 2024-01-16 with everything else absent
C5_Witness ==
    /\ call.op = "get_vest_price"
    /\ call.arg = 20240113
    /\ 20240116 \in DOMAIN forex_rates
    /\ call.ret = <<None, None, None, 20240116>>

\* C6: the date _get_next_business_day(d) returns is the smallest date r >= d
\* that is a business day; r = d when d is a business day; with holidays
\* 2024-01-01 and 2024-01-15, Saturday 2024-01-13 resolves to 2024-01-16.
C6_NextBusinessDayIsLeast ==
    (call.op = "_get_next_business_day" /\ call.ret # OverflowError) =>
        LET d == Strptime(call.arg)
            r == call.ret
        IN  /\ r >= d
            /\ IsBusinessDay(r)
            /\ \A x \in d..(r - 1) : ~IsBusinessDay(x)
            /\ IsBusinessDay(d) => r = d
            /\ (holidays = {20240101, 20240115} /\ call.arg = 20240113)
                   => Strftime(r) = 20240116

C6_Witness ==
    /\ call.op = "_get_next_business_day"
    /\ holidays = {20240101, 20240115}
    /\ call.arg = 20240113
    /\ Strftime(call.ret) = 20240116

\* C7: _is_business_day(d) is false exactly when d is a Saturday or a Sunday
\* or d is in the holiday set.
C7_IsBusinessDay ==
    call.op = "_is_business_day" =>
        (call.ret = FALSE <=>
            (SaturdayOrSunday(call.arg) \/ call.arg \in holidays))

\* a Saturday that is also a holiday is not a business day
C7_Witness ==
    /\ call.op = "_is_business_day"
    /\ SaturdayOrSunday(call.arg)
    /\ call.arg \in holidays
    /\ call.ret = FALSE

----------------------------------------------------------------------------
(* Properties of consolidate_similar_prices *)

IndicesOfKey(rows, key) == {i \in 1..Len(rows) : GroupKey(rows[i]) = key}

RECURSIVE SumQtyOver(_, _)
SumQtyOver(rows, idx) ==
    IF idx = {} THEN 0
    ELSE LET i == CHOOSE j \in idx : TRUE
         IN  rows[i].Qty + SumQtyOver(rows, idx \ {i})

\* C9: the output records can be matched with a partition of the input
\* records into buckets of one grouping key such that every output record
\* carries the summed quantity of its bucket; so per grouping key the output
\* quantity equals the input quantity.
C9_QuantityConserved ==
    df # <<>> =>
        /\ \E bucket_of \in [1..Len(df) -> 1..Len(result_rows)] :
              \A j \in 1..Len(result_rows) :
                 LET members == {i \in 1..Len(df) : bucket_of[i] = j}
                 IN  /\ members # {}
                     /\ \A i \in members :
                           GroupKey(df[i]) = GroupKey(result_rows[j])
                     /\ result_rows[j].Qty = SumQtyOver(df, members)
        /\ \A i \in 1..Len(df) :
              LET key == GroupKey(df[i])
              IN  SumQtyOver(result_rows, IndicesOfKey(result_rows, key))
                      = SumQtyOver(df, IndicesOfKey(df, key))

\* three sells of which two are merged and one is left alone
C9_Witness ==
    /\ Len(df) = 3
    /\ Len(result_rows) = 2
    /\ \E j \in 1..2 : result_rows[j].Qty = 150

\* whether price lies in [p * 0.99, p * 1.01]
InBand(price, p) ==
    /\ RatLe(RatMul(p, Rat(99, 100)), price)
    /\ RatLe(price, RatMul(p, Rat(101, 100)))

\* no two distinct records of one group are within tolerance of each other
NoTwoWithinTolerance(rows) ==
    \A i, j \in 1..Len(rows) :
        (i # j /\ GroupKey(rows[i]) = GroupKey(rows[j]))
            => ~InBand(rows[j].Price, rows[i].Price)

Least(set) == CHOOSE x \in set : \A y \in set : x <= y

\* the buckets the greedy pass is claimed to form from the rows in pool
RECURSIVE GreedyBuckets(_, _)
GreedyBuckets(rows, pool) ==
    IF pool = {} THEN <<>>
    ELSE LET pivot  == Least(pool)
             bucket == {i \in pool : InBand(rows[i].Price, rows[pivot].Price)}
         IN  <<bucket>> \o GreedyBuckets(rows, pool \ bucket)

\* what the claim says a bucket turns into
MatchesBucket(out, rows, bucket) ==
    IF Cardinality(bucket) = 1
    THEN out = rows[Least(bucket)]
    ELSE /\ out.Qty = SumQtyOver(rows, bucket)
         /\ GroupKey(out) = GroupKey(rows[Least(bucket)])

\* C10: within each Sell group the output is, bucket by bucket, the greedy
\* bucketing with the first remaining record as the pivot and the inclusive
\* 1% band around its price: one merged record for a bucket of two or more,
\* the record itself for a bucket of one; 10.00 and 10.05 are merged, 10.00
\* and 11.00 are both emitted unchanged.
C10_GreedyBuckets ==
    df # <<>> =>
        /\ \A i \in 1..Len(df) :
              LET key     == GroupKey(df[i])
                  buckets == GreedyBuckets(df, IndicesOfKey(df, key))
                  out     == SelectSeq(result_rows, LAMBDA r : GroupKey(r) = key)
              IN  /\ Len(out) = Len(buckets)
                  /\ \A b \in 1..Len(buckets) :
                        MatchesBucket(out[b], df, buckets[b])
        /\ (Len(df) = 2 /\ GroupKey(df[1]) = GroupKey(df[2])
               /\ df[1].Price = Cents(1000) /\ df[2].Price = Cents(1005))
              => Len(result_rows) = 1
        /\ (Len(df) = 2 /\ GroupKey(df[1]) = GroupKey(df[2])
               /\ df[1].Price = Cents(1000) /\ df[2].Price = Cents(1100))
              => result_rows = df

\* a pivot of 10.00 takes 10.10, on the edge of its band, and leaves 11.00
C10_Witness ==
    /\ Len(df) = 3
    /\ GroupKey(df[1]) = GroupKey(df[2]) /\ GroupKey(df[2]) = GroupKey(df[3])
    /\ df[1].Price = Cents(1000)
    /\ df[2].Price = Cents(1100)
    /\ df[3].Price = Cents(1010)
    /\ Len(result_rows) = 2
    /\ result_rows[2] = df[2]

----------------------------------------------------------------------------
(* Properties of consolidate_transactions *)

\* the merged vest table consolidate_transactions starts from
VestsWithFMV == MergeVests(vests_df, FmvMapping(sales_df))

Finished == pc \in {"done", "raised"}

\* the Buy record the claims expect of a vest row whose FMV is known
ExpectedKnownBuy(row) ==
    LET date == LeastBusinessDayFrom(row.Date)
        rate == DictGet(forex_rates, date)
    IN  [RecordType |-> "Buy", Qty |-> row.Qty, Date |-> date,
         Price |-> row.FMV,
         PriceGBP |-> IF rate = None THEN None ELSE RatDiv(row.FMV, rate),
         Rate |-> rate, OrderType |-> "Vest",
         Type |-> "Restricted Stock Unit", Grant |-> row.Grant]

\* C1: after a run every vest row with a known FMV has its Buy record in the
\* ledger, priced at the known FMV, with GBP price = FMV / rate when the FX
\* index has a rate for the resolved date and with GBP price and rate absent
\* otherwise; none is dropped.
C1_KnownFmvBuyEmitted ==
    pc = "done" =>
        \A i \in 1..Len(VestsWithFMV) :
            LET row == VestsWithFMV[i]
            IN  row.FMV # None =>
                    Len(SelectSeq(ledger, LAMBDA r : r = ExpectedKnownBuy(row)))
                        >= Len(SelectSeq(VestsWithFMV,
                                 LAMBDA o : o.FMV # None /\
                                     ExpectedKnownBuy(o) = ExpectedKnownBuy(row)))

\* C2: every record of the ledger and every option exercise record is dated
\* on a business day: not a Saturday or Sunday, not in the holiday set.
C2_EveryDateIsBusinessDay ==
    /\ \A i \in 1..Len(ledger) :
          ~SaturdayOrSunday(ledger[i].Date) /\ ledger[i].Date \notin holidays
    /\ \A i \in 1..Len(records) :
          ~SaturdayOrSunday(records[i].Date) /\ records[i].Date \notin holidays

\* the USD price the price index has for the resolved date of a vest row
ResolvedPrice(row) == DictGet(stock_prices, LeastBusinessDayFrom(row.Date))

\* C3: of the vest rows without a known FMV, those for which the price index
\* has a USD price for nextBusinessDay(date) each get a Buy record with that
\* price and count once in calculated_prices, the others get no Buy record
\* and count once in missing_fmv; so calculated_prices + missing_fmv is the
\* number of vest rows without a known FMV.
C3_ComputedOrMissing ==
    Finished =>
        LET unknown == {i \in 1..Len(VestsWithFMV) : VestsWithFMV[i].FMV = None}
            found   == {i \in unknown : ResolvedPrice(VestsWithFMV[i]) # None}
        IN  /\ validation_stats.calculated_prices = Cardinality(found)
            /\ validation_stats.missing_fmv = Cardinality(unknown \ found)
            /\ validation_stats.calculated_prices + validation_stats.missing_fmv
                   = Cardinality(unknown)
            /\ pc = "done" =>
                  /\ \A i \in found :
                        LET row == VestsWithFMV[i]
                        IN  \E j \in 1..Len(ledger) :
                               /\ ledger[j].RecordType = "Buy"
                               /\ ledger[j].Grant = row.Grant
                               /\ ledger[j].Qty = row.Qty
                               /\ ledger[j].Date = LeastBusinessDayFrom(row.Date)
                               /\ ledger[j].Price = ResolvedPrice(row)
                  /\ Len(SelectSeq(ledger, LAMBDA r : r.RecordType = "Buy"
                                        /\ r.Price \notin KnownFMVs))
                         = Cardinality(found)

\* two vests without a known FMV, one priced by the resolver and one not
C3_Witness ==
    /\ pc = "done"
    /\ validation_stats.calculated_prices = 1
    /\ validation_stats.missing_fmv = 1
    /\ Len(SelectSeq(ledger, LAMBDA r : r.RecordType = "Buy")) = 1

\* C4: a data gap is never fatal: consolidate_transactions does not raise,
\* whatever cannot be priced, and the sells all reach the ledger.
C4_DataGapNotFatal ==
    /\ pc # "raised"
    /\ pc = "done" =>
          \A i \in 1..Len(sell_records) :
              LET key == <<sell_records[i].Date, sell_records[i].OrderType>>
                  Is(r) == r.RecordType = "Sell" /\ <<r.Date, r.OrderType>> = key
              IN  SumQtyOver(ledger, {j \in 1..Len(ledger) : Is(ledger[j])})
                      = SumQtyOver(sell_records,
                            {j \in 1..Len(sell_records) : Is(sell_records[j])})

\* C8: every sale has its Sell record, dated on the sale date as given,
\* priced at the proceeds per share, with GBP price = proceeds / rate when
\* the resolver returns an FX rate for the sale date and absent otherwise.
C8_SellRecords ==
    pc = "done" =>
        /\ Len(sell_records) = Len(sales_df)
        /\ \A i \in 1..Len(sales_df) :
              LET sale == sales_df[i]
                  rec  == sell_records[i]
                  date == LeastBusinessDayFrom(sale.DateSold)
                  rate == IF date \in DOMAIN stock_prices
                          THEN DictGet(forex_rates, date) ELSE None
              IN  /\ rec.RecordType = "Sell"
                  /\ rec.Date = sale.DateSold
                  /\ rec.Qty = sale.Qty
                  /\ rec.Price = sale.Proceeds
                  /\ rec.Rate = rate
                  /\ IF rate = None THEN rec.PriceGBP = None
                     ELSE rec.PriceGBP # None
                          /\ RatMul(rec.PriceGBP, rate) = sale.Proceeds

\* a Saturday sale converted at Monday's rate, and a sale without a rate
C8_Witness ==
    /\ pc = "done"
    /\ \E i \in 1..Len(sell_records) :
          /\ sell_records[i].Date = 20240113
          /\ sell_records[i].Rate = Average(20240115)
    /\ \E i \in 1..Len(sell_records) : sell_records[i].PriceGBP = None

----------------------------------------------------------------------------
(* Further properties of the run: what consolidate_similar_prices does to the
   records consolidate_transactions hands it *)

\* C11: Buy records are never consolidated: every Buy record given to
\* consolidate_similar_prices appears in its output exactly once with all
\* fields unchanged, so the output holds as many Buy records as the input.
\* The input Buy records of a run are buy_records, the output is the ledger.
C11_BuysNeverConsolidated ==
    pc = "done" =>
        /\ Len(SelectSeq(ledger, LAMBDA r : r.RecordType = "Buy"))
               = Len(buy_records)
        /\ \A i \in 1..Len(buy_records) :
              Len(SelectSeq(ledger, LAMBDA r : r = buy_records[i]))
                  = Len(SelectSeq(buy_records, LAMBDA b : b = buy_records[i]))

----------------------------------------------------------------------------
(* Further properties of consolidate_similar_prices *)

\* sum of price * quantity over the rows with the indices idx
RECURSIVE SumPriceQtyOver(_, _)
SumPriceQtyOver(rows, idx) ==
    IF idx = {} THEN Rat(0, 1)
    ELSE LET i == CHOOSE j \in idx : TRUE
         IN  RatAdd(RatMul(rows[i].Price, Rat(rows[i].Qty, 1)),
                    SumPriceQtyOver(rows, idx \ {i}))

\* sum(price_i * qty_i) / sum(qty_i), and 0 when the quantities sum to 0
WeightedMean(rows, idx) ==
    IF SumQtyOver(rows, idx) = 0 THEN Rat(0, 1)
    ELSE RatDiv(SumPriceQtyOver(rows, idx), Rat(SumQtyOver(rows, idx), 1))

\* y is x rounded to 6 decimal places: a multiple of 10^-6 at most half a unit
\* from x (compared on the fractional parts)
RoundedTo6(y, x) ==
    LET unit  == 1000000
        whole == x[1] \div x[2]
        frac  == (y[1] - whole * y[2]) * (unit \div y[2])
        diff  == frac * x[2] - (x[1] % x[2]) * unit
    IN  /\ unit % y[2] = 0
        /\ 2 * Abs(diff) <= x[2]

\* the buckets of two or more records among the buckets of the key of row i
MergedBuckets(rows, key) ==
    LET buckets == GreedyBuckets(rows, IndicesOfKey(rows, key))
    IN  {b \in 1..Len(buckets) : Cardinality(buckets[b]) > 1}

\* C12: the USD price of a merged record is sum(price_i * qty_i) / sum(qty_i)
\* over its bucket, rounded to 6 decimal places, and 0 when the quantities of
\* the bucket sum to 0; 10.00 x 100 and 10.05 x 50 give quantity 150 at
\* 10.016667.
C12_WeightedAverage ==
    df # <<>> =>
        /\ \A i \in 1..Len(df) :
              LET key     == GroupKey(df[i])
                  buckets == GreedyBuckets(df, IndicesOfKey(df, key))
                  out     == SelectSeq(result_rows, LAMBDA r : GroupKey(r) = key)
              IN  \A b \in MergedBuckets(df, key) :
                     /\ RoundedTo6(out[b].Price, WeightedMean(df, buckets[b]))
                     /\ SumQtyOver(df, buckets[b]) = 0 => out[b].Price = Rat(0, 1)
        /\ (Len(df) = 2 /\ GroupKey(df[1]) = GroupKey(df[2])
               /\ df[1].Price = Cents(1000) /\ df[1].Qty = 100
               /\ df[2].Price = Cents(1005) /\ df[2].Qty = 50)
              => /\ Len(result_rows) = 1
                 /\ result_rows[1].Qty = 150
                 /\ result_rows[1].Price = Rat(10016667, 1000000)

\* a bucket of 50 and -50 shares: the quantities cancel and the price is 0
C12_Witness ==
    /\ Len(df) = 2
    /\ df[1].Qty = 50 /\ df[2].Qty = 0 - 50
    /\ Len(result_rows) = 1
    /\ result_rows[1].Qty = 0
    /\ result_rows[1].Price = Rat(0, 1)

\* the most frequent exchange rate among the rows with the indices idx, the
\* first occurring one when several are equally frequent; missing rates are
\* not counted
FirstMostFrequentRate(rows, idx) ==
    LET rated    == {i \in idx : rows[i].Rate # None}
        Count(i) == Cardinality({j \in rated : rows[j].Rate = rows[i].Rate})
        best     == {i \in rated : \A j \in rated : Count(j) <= Count(i)}
    IN  IF rated = {} THEN None ELSE rows[Least(best)].Rate

\* C13: the exchange rate of a merged record is the most frequent exchange
\* rate among its bucket members, and of equally frequent rates the one that
\* occurs first among the members in input order.
C13_ModeFirstOccurrence ==
    df # <<>> =>
        \A i \in 1..Len(df) :
           LET key     == GroupKey(df[i])
               buckets == GreedyBuckets(df, IndicesOfKey(df, key))
               out     == SelectSeq(result_rows, LAMBDA r : GroupKey(r) = key)
           IN  \A b \in MergedBuckets(df, key) :
                  out[b].Rate = FirstMostFrequentRate(df, buckets[b])

\* C14: consolidation is idempotent: running consolidate_similar_prices on
\* its own output, when no two distinct records of that output are within
\* tolerance of each other, yields the same set of records.
C14_Idempotent ==
    [][(df # <<>> /\ df' = result_rows /\ NoTwoWithinTolerance(result_rows))
          => SeqToSet(result_rows') = SeqToSet(result_rows)]_vars

\* after the second run: the input is a table with a merged record of 150
\* shares next to another record, and it came back as it was
C14_Witness ==
    /\ Len(df) = 2
    /\ df[1].Qty = 150
    /\ NoTwoWithinTolerance(df)
    /\ result_rows = df

----------------------------------------------------------------------------
(* Further properties of the run *)

\* the records handed to the consolidator that have a date, in the order of
\* the concatenation: the Buy records, then the Sell records
DatedRecords == SelectSeq(buy_records \o sell_records, LAMBDA r : r.Date # NaT)

\* rows sorted by ascending date, rows of one date in their original order
RECURSIVE StableSort(_)
StableSort(rows) ==
    IF rows = <<>> THEN <<>>
    ELSE LET first == Least({i \in 1..Len(rows) :
                          \A j \in 1..Len(rows) : rows[i].Date <= rows[j].Date})
         IN  <<rows[first]>>
                 \o StableSort(SubSeq(rows, 1, first - 1)
                                   \o SubSeq(rows, first + 1, Len(rows)))

\* C15: the ledger is ordered by ascending date, and records of the same date
\* appear in the relative order of the concatenation of the Buy records and
\* the Sell records: the ledger is the stable sort of the concatenated input
\* (compared record by record when no records were merged).
C15_StableLedgerOrder ==
    pc = "done" =>
        /\ \A i, j \in 1..Len(ledger) :
              i < j => ledger[i].Date <= ledger[j].Date
        /\ Len(ledger) = Len(DatedRecords) => ledger = StableSort(DatedRecords)

\* C16: a record with a negative quantity increments negative_quantities by
\* one and is still emitted with its sign: processing of a gains/losses table
\* that contains a negative quantity completes, the counter equals the number
\* of such records and each has its Sell record.
C16_NegativeQuantityEmitted ==
    /\ validation_stats.negative_quantities > 0 => pc # "gains_raised"
    /\ pc \notin {"new", "gains_raised"} =>
          validation_stats.negative_quantities
              = Len(SelectSeq(sales_df, LAMBDA r : r.Qty < 0))
    /\ pc = "done" =>
          \A i \in 1..Len(sales_df) :
              sales_df[i].Qty < 0 => sell_records[i].Qty = sales_df[i].Qty

\* C17: every record with a zero or negative USD price per share (a sale with
\* non-positive proceeds per share, a vest with non-positive FMV) increments
\* zero_prices: after a run the counter equals the number of such records.
C17_ZeroPricesCounted ==
    pc = "done" =>
        validation_stats.zero_prices
            = Len(SelectSeq(buy_records \o sell_records,
                      LAMBDA r : r.Price # None /\ RatLe(r.Price, Rat(0, 1))))

----------------------------------------------------------------------------
(* Further properties of VestPriceCalculator *)

\* C18: construction fails when the holiday set is empty and when the stock
\* prices or the FX rates are empty: an engine that was constructed, and so
\* any run that goes on to a ledger, has none of the three empty.
C18_EmptyDataFailsConstruction ==
    /\ calc_state = "constructed" =>
          /\ holidays # {}
          /\ DOMAIN stock_prices # {}
          /\ DOMAIN forex_rates # {}
    /\ pc = "done" => holidays # {}

----------------------------------------------------------------------------
(* The forward scan and the end of the calendar *)

\* C19: the forward scan of _get_next_business_day ends, for every start date
\* and every holiday set, at a business day: it never runs off the end of the
\* calendar.
C19_ScanStaysInCalendar ==
    call.op = "_get_next_business_day" =>
        /\ call.ret # OverflowError
        /\ call.ret <= DateMax
        /\ IsBusinessDay(call.ret)

----------------------------------------------------------------------------
(* The order of the rows of a group *)

QtysAndPrices(rows) == {<<r.Qty, r.Price>> : r \in SeqToSet(rows)}

Reordered(rows, perm) == Table([i \in 1..Len(rows) |-> rows[perm[i]]])

\* C20: bucket membership does not depend on input order: whatever the order
\* of the Sell records of one group, consolidate_similar_prices emits the same
\* merged quantities and prices.
C20_OrderIndependent ==
    (/\ df # <<>>
     /\ \A i \in 1..Len(df) :
           df[i].RecordType = "Sell" /\ GroupKey(df[i]) = GroupKey(df[1]))
        => \A perm \in Permutations(1..Len(df)) :
              QtysAndPrices(ConsolidateSimilarPrices(Reordered(df, perm),
                                                     price_tolerance))
                  = QtysAndPrices(result_rows)

----------------------------------------------------------------------------
(* Buy records and vest events *)

BuysOf(rows) == SelectSeq(rows, LAMBDA r : r.RecordType = "Buy")

\* C21: each vest event contributes at most one Buy record to the ledger:
\* whatever the sales table, also one with two 'Vest Date FMV' entries (a value
\* and a missing value) for the same grant and vest date, the ledger has at
\* most as many Buy records as there are vest events and their total quantity
\* is at most the total vested quantity.
C21_OneBuyPerVest ==
    pc = "done" =>
        /\ Len(BuysOf(ledger)) <= Len(vests_df)
        /\ SumQty(BuysOf(ledger)) <= SumQty(vests_df)

====
